---- MODULE Spec2Model ----
(***************************************************************************)
(* A model of src/mustache.hpp: the Data value type, the Context scope     *)
(* stack, the Mustache parser (scan loop and the post-scan section check)  *)
(* and the renderer.                                                       *)
(*                                                                         *)
(* Strings of the program are sequences of one-character strings, so that  *)
(* find, substr and trim are computed character by character.              *)
(* A std::unique_ptr payload is a sequence of length 0 (null) or 1.        *)
(***************************************************************************)
EXTENDS Integers, Sequences, FiniteSets, TLC

VARIABLES
    regs,                    \* Data program: the Data variables of a client
    last,                    \* Data program: the operation just executed
    input,                   \* parse: the template text
    inputPosition,           \* parse: the scan position
    currentDelimiterBegin,   \* parse: active opening delimiter
    currentDelimiterEnd,     \* parse: active closing delimiter
    currentDelimiterIsBrace, \* parse: active delimiters are {{ }}
    sections,                \* parse: stack of open sections (paths into the tree)
    rootComponent_,          \* Mustache::rootComponent_
    errorMessage_,           \* Mustache::errorMessage_ (<<>> when empty)
    pc,                      \* position of the client: scan, check, parsed, render, rendered
    data,                    \* render: the root Data passed to render
    items_,                  \* render: Context::items_, innermost first
    frames,                  \* render: the active renderSection/walkChildren calls
    var,                     \* render: the local var of the last renderComponent
    stream                   \* render: the output written so far

vars == <<regs, last, input, inputPosition, currentDelimiterBegin,
          currentDelimiterEnd, currentDelimiterIsBrace, sections,
          rootComponent_, errorMessage_, pc, data, items_, frames, var, stream>>

\* ------------------------------------------------------------------ bounds

\* Data program: number of Data variables of the client
NumRegs == 2
\* Data program: number of operations the client applies
MaxOps == 4
\* parse: number of pieces a template is put together from
MaxTokens == 4
\* render: largest number of elements of a list of the root value
\* pieces of a template of directives
MaxScanTokens == 4

MaxListLen == 2

\* ------------------------------------------------------------ Data (62-211)

Null == <<>>

Some(x) == <<x>>

Types == {"Object", "String", "List", "True", "False"}

MkData(t, o, s, l) == [type |-> t, obj |-> o, str |-> s, list |-> l]

\* Data(Type type): the payload of the type is allocated empty
DataOfType(t) ==
    CASE t = "Object" -> MkData(t, Some(<<>>), Null, Null)
      [] t = "String" -> MkData(t, Null, Some(<<>>), Null)
      [] t = "List"   -> MkData(t, Null, Null, Some(<<>>))
      [] OTHER        -> MkData(t, Null, Null, Null)

\* Data(): Data(Type::Object)
DataDefault == DataOfType("Object")

\* Data(const StringType& string)
DataString(s) == MkData("String", Null, Some(s), Null)

isObject(d) == d.type = "Object"

isString(d) == d.type = "String"

isList(d) == d.type = "List"

isBool(d) == d.type = "True" \/ d.type = "False"

isTrue(d) == d.type = "True"

isFalse(d) == d.type = "False"

\* isList() && list_->empty()
isEmptyList(d) == isList(d) /\ Len(d.list[1]) = 0

\* isList() && !list_->empty()
isNonEmptyList(d) == isList(d) /\ Len(d.list[1]) # 0

\* *str_
stringValue(d) == d.str[1]

RECURSIVE CopyCtor(_)
\* Data(const Data& data): the type tag, and the FIRST payload of data that
\* is present, in the order obj_, str_, list_; the containers copy their
\* elements with this same constructor.
CopyCtor(d) ==
    IF d.obj # Null
    THEN MkData(d.type,
                Some([k \in DOMAIN d.obj[1] |-> CopyCtor(d.obj[1][k])]),
                Null, Null)
    ELSE IF d.str # Null
    THEN MkData(d.type, Null, Some(d.str[1]), Null)
    ELSE IF d.list # Null
    THEN MkData(d.type, Null, Null,
                Some([k \in DOMAIN d.list[1] |-> CopyCtor(d.list[1][k])]))
    ELSE MkData(d.type, Null, Null, Null)

\* Data(const ListType& list)
DataList(l) == MkData("List", Null, Null, Some([k \in DOMAIN l |-> CopyCtor(l[k])]))

\* Data::operator= for &data != this: the type tag is taken, the first
\* payload of data that is present replaces that payload of *this, and the
\* other payloads of *this are left as they were.
OpAssign(this, d) ==
    IF d.obj # Null
    THEN [this EXCEPT !.type = d.type, !.obj = CopyCtor(d).obj]
    ELSE IF d.str # Null
    THEN [this EXCEPT !.type = d.type, !.str = Some(d.str[1])]
    ELSE IF d.list # Null
    THEN [this EXCEPT !.type = d.type, !.list = CopyCtor(d).list]
    ELSE [this EXCEPT !.type = d.type]

\* std::unordered_map::insert: no effect when the key is present.  The value
\* is copied into the std::pair and again into the map's node.
MapInsert(m, name, v) ==
    IF name \in DOMAIN m THEN m ELSE (name :> CopyCtor(CopyCtor(v))) @@ m

\* Data::set
DataSet(this, name, v) ==
    IF isObject(this)
    THEN [this EXCEPT !.obj = Some(MapInsert(this.obj[1], name, v))]
    ELSE this

\* Data::get: [ok, var], var assigned only when the name is found
DataGet(this, name, v) ==
    IF ~isObject(this) THEN [ok |-> FALSE, var |-> v]
    ELSE IF name \notin DOMAIN this.obj[1] THEN [ok |-> FALSE, var |-> v]
    ELSE [ok |-> TRUE, var |-> OpAssign(v, this.obj[1][name])]

\* Data::push_back
DataPushBack(this, v) ==
    IF isList(this)
    THEN [this EXCEPT !.list = Some(Append(this.list[1], CopyCtor(v)))]
    ELSE this

\* ------------------------------------------------- a client of Data (62-211)
\* The client holds NumRegs Data variables and applies the public
\* operations of Data to them in any order.

DataNames == {<<"a">>, <<"b">>}

DataStrings == {<<"s">>}

NoOp == [op |-> "init", dst |-> 0, src |-> 0, name |-> <<>>, step |-> 0]

\* the operation, the variable it is applied to, its argument variable, its
\* name argument, and the number of operations applied so far
Op(o, i, j, n) == [op |-> o, dst |-> i, src |-> j, name |-> n, step |-> last.step + 1]

\* The operation dereferences a null payload pointer (obj_ of a value
\* tagged Object, list_ of a value tagged List): the call does not return.
NullDeref(d) ==
    \/ isObject(d) /\ d.obj = Null
    \/ isList(d) /\ d.list = Null

Crash(i, j) == /\ regs' = regs
               /\ last' = Op("crash", i, j, <<>>)

Running == last.op # "crash" /\ last.step < MaxOps

\* Data x(type) / Data x(string): lines 76-101
Construct(i) ==
    \E d \in {DataOfType(t) : t \in Types} \cup {DataString(s) : s \in DataStrings} :
        /\ Running
        /\ regs' = [regs EXCEPT ![i] = d]
        /\ last' = Op("construct", i, 0, <<>>)

\* Data x(y): lines 110-118
Copy(i, j) ==
    /\ Running
    /\ i # j
    /\ regs' = [regs EXCEPT ![i] = CopyCtor(regs[j])]
    /\ last' = Op("copy", i, j, <<>>)

\* x = y: lines 119-131 (x = x changes nothing)
Assign(i, j) ==
    /\ Running
    /\ regs' = [regs EXCEPT ![i] = IF i = j THEN @ ELSE OpAssign(@, regs[j])]
    /\ last' = Op("assign", i, j, <<>>)

\* x.set(name, y), y another variable: lines 157-161
Set(i, j) ==
    \E n \in DataNames :
        /\ Running
        /\ i # j
        /\ IF NullDeref(regs[i]) THEN Crash(i, j)
           ELSE /\ regs' = [regs EXCEPT ![i] = DataSet(@, n, regs[j])]
                /\ last' = Op("set", i, j, n)

\* x.push_back(y), y another variable: lines 183-187
PushBack(i, j) ==
    /\ Running
    /\ i # j
    /\ IF NullDeref(regs[i]) THEN Crash(i, j)
       ELSE /\ regs' = [regs EXCEPT ![i] = DataPushBack(@, regs[j])]
            /\ last' = Op("push_back", i, j, <<>>)

\* x.get(name, y), y another variable: lines 170-180
Get(i, j) ==
    \E n \in DataNames :
        /\ Running
        /\ i # j
        /\ IF NullDeref(regs[i]) THEN Crash(j, i)
           ELSE /\ regs' = [regs EXCEPT ![j] = DataGet(regs[i], n, @).var]
                /\ last' = Op("get", j, i, n)

DataInit ==
    /\ regs = [i \in 1..NumRegs |-> DataDefault]
    /\ last = NoOp

DataIdle == UNCHANGED <<regs, last>>

\* ------------------------------------------------- strings (std::basic_string)

\* StringType::npos
npos == 0 - 1

MinOf(S) == CHOOSE x \in S : \A y \in S : x <= y

\* s.find(needle, from): the first position >= from at which needle occurs
\* (an empty needle occurs at every position up to s.size()), else npos
Find(s, needle, from) ==
    LET n == Len(needle)
        at == {p \in from..(Len(s) - n) : \A k \in 1..n : s[p + k] = needle[k]}
    IN  IF at = {} THEN npos ELSE MinOf(at)

\* s.substr(pos, n) and StringType(s, pos, n): at most n characters from pos
Substr(s, pos, n) == SubSeq(s, pos + 1, IF pos + n < Len(s) THEN pos + n ELSE Len(s))

\* s.at(i)
At(s, i) == s[i + 1]

\* isspace
IsSpace(c) == c \in {" ", "\t", "\n"}

\* trim (lines 19-30): strips leading and trailing whitespace
Trim(s) ==
    LET black == {i \in 1..Len(s) : ~IsSpace(s[i])}
    IN  IF black = {} THEN <<>>
        ELSE SubSeq(s, MinOf(black), CHOOSE i \in black : \A j \in black : j <= i)

RECURSIVE escape(_)
\* escape (lines 32-59)
escape(s) ==
    IF s = <<>> THEN <<>>
    ELSE LET ch == Head(s)
         IN  (CASE ch = "&"  -> <<"&", "a", "m", "p", ";">>
                [] ch = "<"  -> <<"&", "l", "t", ";">>
                [] ch = ">"  -> <<"&", "g", "t", ";">>
                [] ch = "\"" -> <<"&", "q", "u", "o", "t", ";">>
                [] ch = "'"  -> <<"&", "a", "p", "o", "s", ";">>
                [] OTHER     -> <<ch>>) \o escape(Tail(s))

\* ------------------------------------------- Tag and Component (lines 306-341)

MkTag(n, t) == [name |-> n, type |-> t]

MkComponent(tx, tg, ch, ps) == [text |-> tx, tag |-> tg, children |-> ch, position |-> ps]

\* a default-constructed Component
NewComponent == MkComponent(<<>>, MkTag(<<>>, "Invalid"), <<>>, npos)

TextComponent(tx, ps) == [NewComponent EXCEPT !.text = tx, !.position = ps]

TagComponent(tg, ps) == [NewComponent EXCEPT !.tag = tg, !.position = ps]

isSectionBegin(tg) == tg.type = "SectionBegin" \/ tg.type = "SectionBeginInverted"

isSectionEnd(tg) == tg.type = "SectionEnd"

isText(comp) == comp.text # <<>>

isTag(comp) == comp.text = <<>>

RECURSIVE NodeAt(_, _)
\* the Component a pointer of the sections stack points to: path is the
\* sequence of child indices from the root
NodeAt(comp, path) ==
    IF path = <<>> THEN comp ELSE NodeAt(comp.children[Head(path)], Tail(path))

RECURSIVE PushChild(_, _, _)
\* sections.back()->children.push_back(child)
PushChild(comp, path, child) ==
    IF path = <<>>
    THEN [comp EXCEPT !.children = Append(@, child)]
    ELSE [comp EXCEPT !.children[Head(path)] = PushChild(@, Tail(path), child)]

\* ------------------------------------------------ parsing tags (lines 489-547)

\* parseSetDelimiterTag with the closing = left in the end delimiter
parseSetDelimiterTag_KeepsEquals(contents) ==
    LET size     == Len(contents)
        spacepos == Find(contents, <<" ">>, 0)
        fail     == [ok |-> FALSE, start |-> <<>>, end |-> <<>>]
    IN  IF size < 5 THEN fail
        ELSE IF contents[size] # "=" THEN fail
        ELSE IF spacepos = npos \/ Find(contents, <<" ">>, spacepos + 1) # npos THEN fail
        ELSE [ok    |-> TRUE,
              start |-> Substr(contents, 1, spacepos - 1),
              end   |-> Substr(contents, spacepos + 1, size - (spacepos + 1))]

\* parseSetDelimiterTag without the test of the smallest legal tag
parseSetDelimiterTag_NoSizeTest(contents) ==
    LET size     == Len(contents)
        spacepos == Find(contents, <<" ">>, 0)
        fail     == [ok |-> FALSE, start |-> <<>>, end |-> <<>>]
    IN  IF contents[size] # "=" THEN fail
        ELSE IF spacepos = npos \/ Find(contents, <<" ">>, spacepos + 1) # npos THEN fail
        ELSE [ok    |-> TRUE,
              start |-> Substr(contents, 1, spacepos - 1),
              end   |-> Substr(contents, spacepos + 1, size - (spacepos + 2))]

\* parseSetDelimiterTag: [ok, start, end]
parseSetDelimiterTag(contents) ==
    LET size     == Len(contents)
        spacepos == Find(contents, <<" ">>, 0)
        fail     == [ok |-> FALSE, start |-> <<>>, end |-> <<>>]
    IN  IF size < 5 THEN fail
        ELSE IF contents[size] # "=" THEN fail
        ELSE IF spacepos = npos \/ Find(contents, <<" ">>, spacepos + 1) # npos THEN fail
        ELSE [ok    |-> TRUE,
              start |-> Substr(contents, 1, spacepos - 1),
              end   |-> Substr(contents, spacepos + 1, size - (spacepos + 2))]

\* the tag type of a sigil (lines 516-538)
SigilType(ch) ==
    CASE ch = "#" -> "SectionBegin"
      [] ch = "^" -> "SectionBeginInverted"
      [] ch = "/" -> "SectionEnd"
      [] ch = ">" -> "Partial"
      [] ch = "&" -> "UnescapedVariable"
      [] ch = "!" -> "Comment"
      [] OTHER    -> "Variable"

\* parseTagContents
parseTagContents(isUnescapedVar, contents) ==
    IF isUnescapedVar THEN MkTag(contents, "UnescapedVariable")
    ELSE IF contents = <<>> THEN MkTag(<<>>, "Variable")
    ELSE LET type == SigilType(At(contents, 0))
         IN  IF type = "Variable" THEN MkTag(contents, type)
             ELSE MkTag(Trim(Tail(contents)), type)

\* ------------------------------------------- Mustache::parse (lines 343-446)

braceDelimiterBegin == <<"{", "{">>

braceDelimiterEnd == <<"}", "}">>

braceDelimiterEndUnescaped == <<"}", "}", "}">>

\* errorMessage_.assign(ss.str()): the message by its kind, the name and the
\* offset it prints
\*   UnterminatedTag       "No tag end delimiter found for start delimiter at N"
\*   MalformedDelimiterTag "Invalid set delimiter tag found at N"
\*   UnmatchedSectionEnd   "Section end tag "name" found without start tag at N"
\*   UnterminatedSection   "No section end tag found for section "name" at N"
Message(k, n, ps) == <<[kind |-> k, name |-> n, pos |-> ps]>>

\* One iteration of the scan loop (lines 359-425), from the state of the
\* scan: the values of the locals and members after it, and where parse goes
\* on (scan: next iteration, check: the loop was left by break, parsed: return).
ScanIteration ==
    LET inputSize == Len(input)
        tagLocationStart == Find(input, currentDelimiterBegin, inputPosition)
        keep == [pos |-> inputPosition, begin |-> currentDelimiterBegin,
                 end |-> currentDelimiterEnd, brace |-> currentDelimiterIsBrace,
                 sections |-> sections, root |-> rootComponent_,
                 err |-> errorMessage_, pc |-> "scan"]
    IN
    IF tagLocationStart = npos
    THEN \* No tag found. Add the remaining text.
         [keep EXCEPT
            !.root = PushChild(rootComponent_, sections[Len(sections)],
                        TextComponent(Substr(input, inputPosition, inputSize - inputPosition),
                                      inputPosition)),
            !.pc = "check"]
    ELSE
    LET \* Tag found, add text up to this tag.
        root1 == IF tagLocationStart # inputPosition
                 THEN PushChild(rootComponent_, sections[Len(sections)],
                         TextComponent(Substr(input, inputPosition, tagLocationStart - inputPosition),
                                       inputPosition))
                 ELSE rootComponent_
        contents0 == tagLocationStart + Len(currentDelimiterBegin)
        tagIsUnescapedVar ==
            /\ currentDelimiterIsBrace
            /\ tagLocationStart # inputSize - 2
            /\ At(input, contents0) = At(braceDelimiterBegin, 0)
        currentTagDelimiterEnd ==
            IF tagIsUnescapedVar THEN braceDelimiterEndUnescaped ELSE currentDelimiterEnd
        currentTagDelimiterEndSize == Len(currentTagDelimiterEnd)
        tagContentsLocation == IF tagIsUnescapedVar THEN contents0 + 1 ELSE contents0
        tagLocationEnd == Find(input, currentTagDelimiterEnd, tagContentsLocation)
    IN
    IF tagLocationEnd = npos
    THEN [keep EXCEPT !.root = root1,
                      !.err = Message("UnterminatedTag", <<>>, tagLocationStart),
                      !.pc = "parsed"]
    ELSE
    LET tagContents ==
            Trim(Substr(input, tagContentsLocation, tagLocationEnd - tagContentsLocation))
        isSet == tagContents # <<>> /\ At(tagContents, 0) = "="
        sd == parseSetDelimiterTag(tagContents)
    IN
    IF isSet /\ ~sd.ok
    THEN [keep EXCEPT !.root = root1,
                      !.err = Message("MalformedDelimiterTag", <<>>, tagLocationStart),
                      !.pc = "parsed"]
    ELSE
    LET begin1 == IF isSet THEN sd.start ELSE currentDelimiterBegin
        end1   == IF isSet THEN sd.end ELSE currentDelimiterEnd
        brace1 == IF isSet
                  THEN begin1 = braceDelimiterBegin /\ end1 = braceDelimiterEnd
                  ELSE currentDelimiterIsBrace
        comp   == TagComponent(parseTagContents(tagIsUnescapedVar, tagContents),
                               tagLocationStart)
        back   == sections[Len(sections)]
        root2  == PushChild(root1, back, comp)
        after  == [keep EXCEPT !.root = root2, !.begin = begin1, !.end = end1,
                               !.brace = brace1,
                               !.pos = tagLocationEnd + currentTagDelimiterEndSize]
    IN
    \* Push or pop sections
    IF isSectionBegin(comp.tag)
    THEN [after EXCEPT
            !.sections = Append(sections,
                            Append(back, Len(NodeAt(root2, back).children)))]
    ELSE IF isSectionEnd(comp.tag) /\ Len(sections) = 1
    THEN [after EXCEPT !.pos = inputPosition,
                       !.err = Message("UnmatchedSectionEnd", comp.tag.name, comp.position),
                       !.pc = "parsed"]
    ELSE IF isSectionEnd(comp.tag)
    THEN [after EXCEPT !.sections = SubSeq(sections, 1, Len(sections) - 1)]
    ELSE after

\* while (inputPosition != inputSize) { ... }
ScanStep ==
    /\ pc = "scan"
    /\ inputPosition # Len(input)
    /\ LET r == ScanIteration
       IN  /\ inputPosition' = r.pos
           /\ currentDelimiterBegin' = r.begin
           /\ currentDelimiterEnd' = r.end
           /\ currentDelimiterIsBrace' = r.brace
           /\ sections' = r.sections
           /\ rootComponent_' = r.root
           /\ errorMessage_' = r.err
           /\ pc' = r.pc
    /\ UNCHANGED input

\* ---------------------------------------- walk (lines 455-487) as parse uses it

RECURSIVE CheckComponent(_)
RECURSIVE CheckChildren(_)

\* walkComponent with the callback of lines 429-439, on comp, which is the
\* loop's COPY of a child (for (auto childComp : ...)): <<>> when the walk
\* goes on (Continue), <<c>> when it stops at the section c (Stop).  The
\* callback's children.pop_back() acts on the copy, whose remaining children
\* are then walked.
CheckComponent(comp) ==
    IF ~isSectionBegin(comp.tag) THEN CheckChildren(comp.children)
    ELSE IF \/ comp.children = <<>>
            \/ ~isSectionEnd(comp.children[Len(comp.children)].tag)
            \/ comp.children[Len(comp.children)].tag.name # comp.tag.name
    THEN <<comp>>
    ELSE CheckChildren(SubSeq(comp.children, 1, Len(comp.children) - 1))

\* the loops of walkChildren and walkComponent over children, left at Stop
CheckChildren(children) ==
    IF children = <<>> THEN <<>>
    ELSE LET r == CheckComponent(Head(children))
         IN  IF r # <<>> THEN r ELSE CheckChildren(Tail(children))

\* what a read through invalidStartPosition can give (lines 440-443): the
\* pointer is to the loop's copy of the section, destroyed when the loop was
\* left, so the read is of a dead object: the old value, an empty string, or
\* anything else (Garbage); or the read faults and parse does not return.
Garbage == <<"?">>

DanglingName(comp) == {comp.tag.name, <<>>, Garbage}

DanglingPosition(comp) == {comp.position, npos}

\* Check for sections without an ending tag (lines 427-445)
CheckSections ==
    /\ pc = "check" \/ (pc = "scan" /\ inputPosition = Len(input))
    /\ LET invalidStartPosition == CheckChildren(rootComponent_.children)
       IN  IF invalidStartPosition = <<>>
           THEN errorMessage_' = errorMessage_ /\ pc' = "parsed"
           ELSE \/ \E n \in DanglingName(invalidStartPosition[1]),
                      ps \in DanglingPosition(invalidStartPosition[1]) :
                      /\ errorMessage_' = Message("UnterminatedSection", n, ps)
                      /\ pc' = "parsed"
                \/ errorMessage_' = errorMessage_ /\ pc' = "crashed"
    /\ UNCHANGED <<input, inputPosition, currentDelimiterBegin, currentDelimiterEnd,
                   currentDelimiterIsBrace, sections, rootComponent_>>

\* Mustache(const StringType& input): the state parse starts from
ParseInit(templates) ==
    /\ input \in templates
    /\ inputPosition = 0
    /\ currentDelimiterBegin = braceDelimiterBegin
    /\ currentDelimiterEnd = braceDelimiterEnd
    /\ currentDelimiterIsBrace = TRUE
    /\ sections = << <<>> >>
    /\ rootComponent_ = NewComponent
    /\ errorMessage_ = <<>>
    /\ pc = "scan"

\* isValid
isValid == errorMessage_ = <<>>

\* ------------------------------------------------ Context (lines 213-258)

\* Context::push: items_.insert(items_.begin(), &data)
CtxPush(items, d) == <<d>> \o items

\* Context::pop: items_.erase(items_.begin())
CtxPop(items) == Tail(items)

RECURSIVE CtxGet_OutermostFirst(_, _, _)
\* Context::get scanning from the back: the outermost item that has the name
CtxGet_OutermostFirst(items, name, v) ==
    IF items = <<>> THEN [ok |-> FALSE, var |-> v]
    ELSE LET r == DataGet(items[Len(items)], name, v)
         IN  IF r.ok THEN r
             ELSE CtxGet_OutermostFirst(SubSeq(items, 1, Len(items) - 1), name, v)

RECURSIVE CtxGet(_, _, _)
\* Context::get: the first item, from the front, whose get finds the name
CtxGet(items, name, v) ==
    IF items = <<>> THEN [ok |-> FALSE, var |-> v]
    ELSE LET r == DataGet(Head(items), name, v)
         IN  IF r.ok THEN r ELSE CtxGet(Tail(items), name, v)

\* ------------------------------------------- Mustache::render (lines 275-288,
\* 549-614).  A frame is one running walkChildren call: comp is the Component
\* whose children it visits (the walk's copy), i the next child, mode what
\* renderSection did for it (list: one pass per element with the element
\* pushed; object: one pass with var pushed; plain: one pass, nothing pushed;
\* descend: walkComponent's own loop over children; root: the call made by
\* render), val the section's value, k the element of the running pass, base
\* the number of scopes when the section was entered.

Frame(c, m, v, b) ==
    [comp |-> c, i |-> 1, mode |-> m, val |-> v, k |-> IF m = "list" THEN 1 ELSE 0,
     base |-> b]

Top == frames[Len(frames)]

\* the frames with the top frame's next child counted as visited
Advanced == [frames EXCEPT ![Len(frames)].i = @ + 1]

BoolText(v) == IF isTrue(v) THEN <<"t", "r", "u", "e">> ELSE <<"f", "a", "l", "s", "e">>

\* what a Variable or UnescapedVariable tag writes (lines 559-577)
VariableText(r, escaped) ==
    IF ~r.ok THEN <<>>
    ELSE IF isString(r.var)
    THEN (IF escaped THEN escape(stringValue(r.var)) ELSE stringValue(r.var))
    ELSE IF isBool(r.var) THEN BoolText(r.var)
    ELSE <<>>

\* the conditions of renderComponent with the empty-List test left out
SectionRenders_NoEmptyList(type, r) ==
    IF type = "SectionBegin"
    THEN r.ok /\ ~isFalse(r.var)
    ELSE ~r.ok \/ isFalse(r.var)

\* whether renderComponent calls renderSection for a section tag (579, 584)
SectionRenders(type, r) ==
    IF type = "SectionBegin"
    THEN r.ok /\ ~isFalse(r.var) /\ ~isEmptyList(r.var)
    ELSE ~r.ok \/ isFalse(r.var) \/ isEmptyList(r.var)

\* renderSection (lines 599-614): the frame of its first walkChildren call
SectionFrame(comp, v) ==
    Frame(comp,
          IF isNonEmptyList(v) THEN "list" ELSE IF isObject(v) THEN "object" ELSE "plain",
          v, Len(items_))

\* renderSection pushing var whatever its type
SectionScopes_AlwaysPush(v) ==
    IF isNonEmptyList(v) THEN CtxPush(items_, v.list[1][1])
    ELSE CtxPush(items_, v)

\* the scopes after the ContextPusher of that first call, if there is one
SectionScopes(v) ==
    IF isNonEmptyList(v) THEN CtxPush(items_, v.list[1][1])
    ELSE IF isObject(v) THEN CtxPush(items_, v)
    ELSE items_

\* render(stream, data): Context ctx(data); walk(...)
RenderStart(roots) ==
    /\ pc = "parsed"
    /\ \E d \in roots :
          /\ data' = d
          /\ items_' = CtxPush(<<>>, d)
          /\ frames' = <<Frame(rootComponent_, "root", d, 1)>>
    /\ var' = DataDefault
    /\ stream' = <<>>
    /\ pc' = "render"
    /\ UNCHANGED <<input, inputPosition, currentDelimiterBegin, currentDelimiterEnd,
                   currentDelimiterIsBrace, sections, rootComponent_, errorMessage_>>

\* walkComponent on the next child of the running walkChildren call, with
\* the callback renderComponent (lines 549-596)
RenderComponent ==
    /\ pc = "render"
    /\ Top.i <= Len(Top.comp.children)
    /\ LET comp == Top.comp.children[Top.i]
           tag  == comp.tag
           r    == CtxGet(items_, tag.name, DataDefault)
       IN  IF isText(comp)
           THEN /\ stream' = stream \o comp.text
                /\ var' = DataDefault
                /\ frames' = IF comp.children = <<>> THEN Advanced
                             ELSE Append(Advanced, Frame(comp, "descend", DataDefault, Len(items_)))
                /\ items_' = items_
           ELSE IF tag.type \in {"Variable", "UnescapedVariable"}
           THEN /\ stream' = stream \o VariableText(r, tag.type = "Variable")
                /\ var' = r.var
                /\ frames' = IF comp.children = <<>> THEN Advanced
                             ELSE Append(Advanced, Frame(comp, "descend", DataDefault, Len(items_)))
                /\ items_' = items_
           ELSE IF isSectionBegin(tag)
           THEN /\ stream' = stream
                /\ var' = r.var
                /\ IF SectionRenders(tag.type, r)
                   THEN /\ frames' = Append(Advanced, SectionFrame(comp, r.var))
                        /\ items_' = SectionScopes(r.var)
                   ELSE /\ frames' = Advanced
                        /\ items_' = items_
           ELSE \* Partial (written to std::cout, not to the stream), Comment,
                \* SectionEnd, Invalid: nothing is written
                /\ stream' = stream
                /\ var' = DataDefault
                /\ frames' = IF comp.children = <<>> THEN Advanced
                             ELSE Append(Advanced, Frame(comp, "descend", DataDefault, Len(items_)))
                /\ items_' = items_
    /\ UNCHANGED <<input, inputPosition, currentDelimiterBegin, currentDelimiterEnd,
                   currentDelimiterIsBrace, sections, rootComponent_, errorMessage_,
                   pc, data>>

\* a ContextPusher whose destructor does not pop
PusherEnd_NoPop(items) == items

\* ~ContextPusher: ctx_.pop()
PusherEnd(items) == CtxPop(items)

\* the running walkChildren call has visited every child: it returns (the
\* ContextPusher of a list or object pass is destroyed), and renderSection
\* starts the pass of the next list element or returns too
WalkChildrenEnd ==
    /\ pc = "render"
    /\ Top.i > Len(Top.comp.children)
    /\ LET f == Top
           below == SubSeq(frames, 1, Len(frames) - 1)
       IN  IF f.mode = "list" /\ f.k < Len(f.val.list[1])
           THEN /\ items_' = CtxPush(PusherEnd(items_), f.val.list[1][f.k + 1])
                /\ frames' = Append(below, [f EXCEPT !.k = @ + 1, !.i = 1])
                /\ pc' = pc
           ELSE /\ items_' = IF f.mode \in {"list", "object"} THEN PusherEnd(items_) ELSE items_
                /\ frames' = below
                /\ pc' = IF f.mode = "root" THEN "rendered" ELSE pc
    /\ UNCHANGED <<input, inputPosition, currentDelimiterBegin, currentDelimiterEnd,
                   currentDelimiterIsBrace, sections, rootComponent_, errorMessage_,
                   data, var, stream>>

\* ------------------------------------------------ the inputs of render

X == <<"x">>

N == <<"n">>

\* the name of the Variable tag a set-delimiter directive leaves in the tree
DirectiveName == <<"=", "<", "%", " ", "%", ">", "=">>

DirectiveBackName == <<"=", "{", "{", " ", "}", "}", "=">>

\* {{#x}}A{{/x}}
T_Section ==
    <<"{", "{", "#", "x", "}", "}", "A", "{", "{", "/", "x", "}", "}">>

\* {{^x}}A{{/x}}
T_Inverted ==
    <<"{", "{", "^", "x", "}", "}", "A", "{", "{", "/", "x", "}", "}">>

\* {{#x}}{{n}}{{/x}}
T_SectionVar ==
    <<"{", "{", "#", "x", "}", "}", "{", "{", "n", "}", "}", "{", "{", "/", "x", "}", "}">>

\* {{^x}}{{n}}{{/x}}
T_InvertedVar ==
    <<"{", "{", "^", "x", "}", "}", "{", "{", "n", "}", "}", "{", "{", "/", "x", "}", "}">>

\* {{#x}}{{#x}}{{n}}{{/x}}{{/x}}
T_Nested ==
    <<"{", "{", "#", "x", "}", "}", "{", "{", "#", "x", "}", "}", "{", "{", "n", "}", "}", "{", "{", "/", "x", "}", "}", "{", "{", "/", "x", "}", "}">>

\* {{#x}}{{^y}}{{n}}{{/y}}B{{/x}}
T_NestedInverted ==
    <<"{", "{", "#", "x", "}", "}", "{", "{", "^", "y", "}", "}", "{", "{", "n", "}", "}", "{", "{", "/", "y", "}", "}", "B", "{", "{", "/", "x", "}", "}">>

\* {{=<% %>=}}<%x%>{{=<% %>=}}
T_Delimiters ==
    <<"{", "{", "=", "<", "%", " ", "%", ">", "=", "}", "}", "<", "%", "x", "%", ">", "{", "{", "=", "<", "%", " ", "%", ">", "=", "}", "}">>

\* {{=<% %>=}}<%x%><%={{ }}=%>
T_DelimitersBack ==
    <<"{", "{", "=", "<", "%", " ", "%", ">", "=", "}", "}", "<", "%", "x", "%", ">", "<", "%", "=", "{", "{", " ", "}", "}", "=", "%", ">">>

\* {{x}}
T_Variable ==
    <<"{", "{", "x", "}", "}">>

\* {{{x}}}{{&x}}
T_Unescaped ==
    <<"{", "{", "{", "x", "}", "}", "}", "{", "{", "&", "x", "}", "}">>

\* ab{{
T_BadTag ==
    <<"a", "b", "{", "{">>

\* t{{#x}}
T_BadSection ==
    <<"t", "{", "{", "#", "x", "}", "}">>

RenderTemplates ==
    { T_Section,
      T_Inverted,
      T_SectionVar,
      T_InvertedVar,
      T_Nested,
      T_NestedInverted,
      T_Delimiters,
      T_DelimitersBack,
      T_Variable,
      T_Unescaped,
      T_BadTag,
      T_BadSection }

\* Data o; o.set(name, v)
Obj1(name, v) == DataSet(DataDefault, name, v)

\* the elements of the lists
ElemValues ==
    { DataOfType("True"), DataDefault,
      Obj1(N, DataString(<<"1">>)), Obj1(N, DataString(<<"2">>)) }

RECURSIVE ListsUpTo(_)
\* Data l = Data::List(); l.push_back(e) ... : the lists of at most n elements
ListsUpTo(n) ==
    IF n = 0 THEN {DataOfType("List")}
    ELSE LET shorter == ListsUpTo(n - 1)
         IN  shorter \cup {DataPushBack(l, e) : l \in shorter, e \in ElemValues}

\* the values given to the name x
XValues ==
    { DataOfType("True"), DataOfType("False"),
      DataString(<<"s">>), DataString(<<"<", "&">>),
      DataDefault, Obj1(N, DataString(<<"1">>)) }
    \cup ListsUpTo(MaxListLen)

\* the root values: an Object with or without x, n and entries named like
\* the directives and by the empty name, and roots that are no Object
RootValues ==
    LET withX == {DataDefault} \cup {Obj1(X, v) : v \in XValues}
        withN == withX \cup {DataSet(o, N, DataString(<<"0">>)) : o \in withX}
        withD == withN \cup
                 {DataSet(DataSet(DataSet(o, DirectiveName, DataString(<<"d">>)),
                                  DirectiveBackName, DataString(<<"e">>)),
                          <<>>, DataString(<<"f">>)) : o \in withN}
    IN  withD \cup {DataOfType("True"), DataString(<<"s">>)}
              \cup {l \in ListsUpTo(1) : TRUE}

\* ------------------------------------------------------------ specifications

ParseIdleInit ==
    /\ input = <<>> /\ inputPosition = 0
    /\ currentDelimiterBegin = <<>> /\ currentDelimiterEnd = <<>>
    /\ currentDelimiterIsBrace = TRUE
    /\ sections = <<>> /\ rootComponent_ = <<>> /\ errorMessage_ = <<>>
    /\ pc = "idle"

RenderIdleInit ==
    /\ data = DataDefault /\ items_ = <<>> /\ frames = <<>>
    /\ var = DataDefault /\ stream = <<>>

ParseIdle ==
    UNCHANGED <<input, inputPosition, currentDelimiterBegin, currentDelimiterEnd,
                currentDelimiterIsBrace, sections, rootComponent_, errorMessage_, pc>>

RenderIdle == UNCHANGED <<data, items_, frames, var, stream>>

InitData == DataInit /\ ParseIdleInit /\ RenderIdleInit

DoConstruct == (\E i \in 1..NumRegs : Construct(i)) /\ ParseIdle /\ RenderIdle

DoCopy == (\E i, j \in 1..NumRegs : Copy(i, j)) /\ ParseIdle /\ RenderIdle

DoAssign == (\E i, j \in 1..NumRegs : Assign(i, j)) /\ ParseIdle /\ RenderIdle

DoSet == (\E i, j \in 1..NumRegs : Set(i, j)) /\ ParseIdle /\ RenderIdle

DoPushBack == (\E i, j \in 1..NumRegs : PushBack(i, j)) /\ ParseIdle /\ RenderIdle

DoGet == (\E i, j \in 1..NumRegs : Get(i, j)) /\ ParseIdle /\ RenderIdle

NextData == DoConstruct \/ DoCopy \/ DoAssign \/ DoSet \/ DoPushBack \/ DoGet

\* The client of Data: any sequence of constructions, copies, assignments,
\* set, push_back and get.
SpecData == InitData /\ [][NextData]_vars

\* Templates: every concatenation of at most MaxTokens of these pieces
ParseTokens ==
    { <<"{", "{", "#", "a", "}", "}">>,
      <<"{", "{", "/", "a", "}", "}">>,
      <<"{", "{", "^", "b", "}", "}">>,
      <<"{", "{", "/", "b", "}", "}">>,
      <<"{", "{", "x", "}", "}">>,
      <<"t">>,
      <<"{", "{">> }

RECURSIVE Concats(_, _)
Concats(tokens, n) ==
    IF n = 0 THEN {<<>>}
    ELSE LET shorter == Concats(tokens, n - 1)
         IN  shorter \cup {t \o k : t \in shorter, k \in tokens}

ParseTemplates == Concats(ParseTokens, MaxTokens)

InitParse == DataInit /\ ParseInit(ParseTemplates) /\ RenderIdleInit

DoScanStep == ScanStep /\ DataIdle /\ RenderIdle

DoCheckSections == CheckSections /\ DataIdle /\ RenderIdle

NextParse == DoScanStep \/ DoCheckSections

\* Parsing each template of ParseTemplates.
SpecParse == InitParse /\ [][NextParse]_vars

\* Templates of directives with an empty opening or closing token: every
\* concatenation of at most MaxScanTokens of these pieces
ScanTokens ==
    { <<"{", "{", "=", " ", "a", "b", "=", "}", "}">>,
      <<"{", "{", "=", "a", "b", " ", "=", "}", "}">>,
      <<"{", "{", "=", " ", "=", "}", "}">>,
      <<"a", "b">>,
      <<"a">>,
      <<"{", "{">> }

ScanTemplates == Concats(ScanTokens, MaxScanTokens)

InitScan == DataInit /\ ParseInit(ScanTemplates) /\ RenderIdleInit

NextScan == DoScanStep \/ DoCheckSections

\* Parsing each template of ScanTemplates.
SpecScan == InitScan /\ [][NextScan]_vars

InitRender == DataInit /\ ParseInit(RenderTemplates) /\ RenderIdleInit

DoRenderStart == RenderStart(RootValues) /\ DataIdle

DoRenderComponent == RenderComponent /\ DataIdle

DoWalkChildrenEnd == WalkChildrenEnd /\ DataIdle

NextRender ==
    \/ DoScanStep
    \/ DoCheckSections
    \/ DoRenderStart
    \/ DoRenderComponent
    \/ DoWalkChildrenEnd

\* Parsing each template of RenderTemplates and rendering it against each
\* root value of RootValues.
SpecRender == InitRender /\ [][NextRender]_vars

\* ------------------------------------------------------------------- claims

\* exactly the payload matching the type tag is present
WellFormed(d) ==
    /\ (d.obj # Null) <=> isObject(d)
    /\ (d.str # Null) <=> isString(d)
    /\ (d.list # Null) <=> isList(d)

RECURSIVE WellFormedDeep(_)
WellFormedDeep(d) ==
    /\ WellFormed(d)
    /\ isObject(d) => \A k \in DOMAIN d.obj[1] : WellFormedDeep(d.obj[1][k])
    /\ isList(d) => \A k \in DOMAIN d.list[1] : WellFormedDeep(d.list[1][k])

RECURSIVE SameValue(_, _)
\* the same type tag, and the payloads matching the tag present with equal
\* content (stray payloads are not looked at)
SameValue(a, b) ==
    /\ a.type = b.type
    /\ isObject(a) =>
          /\ a.obj # Null /\ b.obj # Null
          /\ DOMAIN a.obj[1] = DOMAIN b.obj[1]
          /\ \A k \in DOMAIN a.obj[1] : SameValue(a.obj[1][k], b.obj[1][k])
    /\ isString(a) => a.str # Null /\ b.str # Null /\ a.str[1] = b.str[1]
    /\ isList(a) =>
          /\ a.list # Null /\ b.list # Null
          /\ Len(a.list[1]) = Len(b.list[1])
          /\ \A k \in DOMAIN a.list[1] : SameValue(a.list[1][k], b.list[1][k])

Preserves(src, cpy) == WellFormed(cpy) /\ SameValue(src, cpy)

\* C1: every copy of a Data value made by the copy constructor (Data x(y),
\* the element inserted by set, the element appended by push_back) has the
\* type tag of its source, exactly the payload matching that tag, and that
\* payload's content equal to the source's.
C1_CopyPreserves ==
    [][LET i == last'.dst
           j == last'.src
           n == last'.name
       IN  /\ last'.op = "copy" => Preserves(regs[j], regs'[i])
           /\ (last'.op = "set" /\ isObject(regs[i]) /\ n \notin DOMAIN regs[i].obj[1])
                 => Preserves(regs[j], regs'[i].obj[1][n])
           /\ (last'.op = "push_back" /\ isList(regs[i]))
                 => Preserves(regs[j], regs'[i].list[1][Len(regs'[i].list[1])])
      ]_vars

\* C2: after x.set(name, y) on an Object x, x.get(name) finds the value y just
\* given, also when the name was present before; set on a non-Object changes
\* nothing.  (y is taken well formed, so that the copy made of it is exact.)
C2_SetOverwrites ==
    [][last'.op = "set" =>
         LET i == last'.dst
             j == last'.src
             r == DataGet(regs'[i], last'.name, DataDefault)
         IN  IF isObject(regs[i])
             THEN WellFormedDeep(regs[j]) => r.ok /\ SameValue(regs[j], r.var)
             ELSE regs'[i] = regs[i]
      ]_vars

\* the section tags written in the input, by their sigil: <<name, offset>> of
\* every {{#n}} and {{^n}} (Opens) and of every {{/n}} (Closes) with a
\* one-character name n
TagsAt(sigils) ==
    {<<<<input[p + 4]>>, p>> : p \in {q \in 0..(Len(input) - 6) :
        /\ input[q + 1] = "{" /\ input[q + 2] = "{"
        /\ input[q + 3] \in sigils
        /\ input[q + 5] = "}" /\ input[q + 6] = "}"}}

Opens == TagsAt({"#", "^"})

Closes == TagsAt({"/"})

\* every {{ of the input opens a tag {{x}} or a section tag {{#n}}, {{^n}},
\* {{/n}}, closed by the next }}
CleanTags ==
    \A p \in 0..(Len(input) - 2) :
        (input[p + 1] = "{" /\ input[p + 2] = "{") =>
            /\ p + 3 <= Len(input) /\ input[p + 3] # "{"
            /\ Find(input, braceDelimiterEnd, p + 2) \in {p + 3, p + 4}

RECURSIVE Nesting(_, _)
\* the sections left open after the section tags from offset p on, read with
\* a stack of names: <<"bad">> when a closing tag does not match the
\* innermost open section
Nesting(p, stack) ==
    IF p > Len(input) - 6 THEN stack
    ELSE IF \E t \in Opens : t[2] = p
    THEN Nesting(p + 6, Append(stack, input[p + 4]))
    ELSE IF \E t \in Closes : t[2] = p
    THEN IF stack # <<>> /\ stack[Len(stack)] = input[p + 4]
         THEN Nesting(p + 6, SubSeq(stack, 1, Len(stack) - 1))
         ELSE <<"bad">>
    ELSE Nesting(p + 1, stack)

SectionError ==
    /\ errorMessage_ # <<>>
    /\ errorMessage_[1].kind \in {"UnterminatedSection", "UnmatchedSectionEnd"}

\* C7: a template with a section that is opened and never closed fails to
\* parse with UnterminatedSection carrying the name and the offset of an
\* opening tag; one with a closing tag and no open section fails with
\* UnmatchedSectionEnd carrying that tag's name and offset; a template whose
\* sections are properly nested raises neither.
C7_SectionErrors ==
    CleanTags =>
        /\ pc # "crashed"
        /\ pc = "parsed" =>
              /\ (Opens # {} /\ Closes = {}) =>
                    errorMessage_ # <<>> /\ errorMessage_[1].kind = "UnterminatedSection"
              /\ (Opens = {} /\ Closes # {}) =>
                    /\ errorMessage_ # <<>>
                    /\ errorMessage_[1].kind = "UnmatchedSectionEnd"
                    /\ errorMessage_[1].pos = MinOf({t[2] : t \in Closes})
              /\ (errorMessage_ # <<>> /\ errorMessage_[1].kind = "UnterminatedSection") =>
                    <<errorMessage_[1].name, errorMessage_[1].pos>> \in Opens
              /\ (errorMessage_ # <<>> /\ errorMessage_[1].kind = "UnmatchedSectionEnd") =>
                    <<errorMessage_[1].name, errorMessage_[1].pos>> \in Closes
              /\ Nesting(0, <<>>) = <<>> => errorMessage_ = <<>>
              /\ Nesting(0, <<>>) # <<>> => SectionError

\* C8: after a failed parse isValid() is false, the message is not empty and
\* the tree keeps none of the nodes scanned before the error.
C8_NoPartialTree ==
    (pc = "parsed" /\ errorMessage_ # <<>>) =>
        /\ ~isValid
        /\ Len(errorMessage_) > 0
        /\ rootComponent_.children = <<>>

RECURSIVE HasSectionEnd(_)
\* the tree of comp holds a SectionEnd node
HasSectionEnd(comp) ==
    \/ isSectionEnd(comp.tag)
    \/ \E k \in DOMAIN comp.children : HasSectionEnd(comp.children[k])

\* C9: after a successful parse the stored tree holds no SectionEnd node at
\* any depth.
C9_NoSectionEndKept ==
    (pc = "parsed" /\ isValid) => ~HasSectionEnd(rootComponent_)

\* ---- claims about render

RootHas(name) == isObject(data) /\ name \in DOMAIN data.obj[1]

RootVal(name) == data.obj[1][name]

\* the text a {{name}} tag stands for when the name has the value v
Shown(v) ==
    CASE v.type = "String" -> escape(v.str[1])
      [] v.type = "True"   -> <<"t", "r", "u", "e">>
      [] v.type = "False"  -> <<"f", "a", "l", "s", "e">>
      [] OTHER             -> <<>>

ShownName(name) == IF RootHas(name) THEN Shown(RootVal(name)) ELSE <<>>

ShownX == ShownName(X)

\* the root value has no entry named by the text of a directive or by the
\* empty name
NoDirectiveEntries ==
    ~RootHas(DirectiveName) /\ ~RootHas(DirectiveBackName) /\ ~RootHas(<<>>)

ScanOver == pc \in {"parsed", "render", "rendered"}

Suffix(q, n) == SubSeq(q, Len(q) - n + 1, Len(q))

\* C3 as stated: for {{=<% %>=}}<%x%>{{=<% %>=}} the scan ends with the
\* default delimiters active and the output is exactly the value of x.
C3_AsStated ==
    input = T_Delimiters =>
        /\ ScanOver => /\ currentDelimiterBegin = braceDelimiterBegin
                       /\ currentDelimiterEnd = braceDelimiterEnd
        /\ pc = "rendered" => stream = ShownX

\* C3 amended: the directive that switches back has to be written in the
\* delimiters then active.  {{=<% %>=}}<%x%><%={{ }}=%> parses, ends the scan
\* with {{ }} active and renders what {{x}} renders; each directive stays in
\* the tree as a variable tag named by its text and adds what that name
\* renders, nothing when the root value has no such entry.  As stated, the
\* second {{=<% %>=}} is scanned under <% %>, which stay active: {{= and =}}
\* are text and <% %> is a variable tag with the empty name.
C3_DelimitersSwitchBack ==
    /\ input = T_DelimitersBack =>
          /\ ScanOver => /\ isValid
                         /\ currentDelimiterBegin = braceDelimiterBegin
                         /\ currentDelimiterEnd = braceDelimiterEnd
                         /\ currentDelimiterIsBrace
          /\ pc = "rendered" =>
                /\ stream = ShownName(DirectiveName) \o ShownX
                               \o ShownName(DirectiveBackName)
                /\ NoDirectiveEntries => stream = ShownX
    /\ input = T_Delimiters =>
          /\ ScanOver => /\ isValid
                         /\ currentDelimiterBegin = <<"<", "%">>
                         /\ currentDelimiterEnd = <<"%", ">">>
                         /\ ~currentDelimiterIsBrace
          /\ pc = "rendered" =>
                stream = ShownName(DirectiveName) \o ShownX \o <<"{", "{", "=">>
                            \o ShownName(<<>>) \o <<"=", "}", "}">>

C3_Witness ==
    /\ pc = "rendered" /\ input = T_DelimitersBack /\ NoDirectiveEntries
    /\ RootHas(X) /\ RootVal(X) = DataString(<<"<", "&">>)
    /\ stream = <<"&", "l", "t", ";", "&", "a", "m", "p", ";">>
    /\ currentDelimiterIsBrace

C4_Depth ==
    pc \in {"render", "rendered"} =>
        /\ Len(items_) >= 1
        /\ items_[Len(items_)] = data
        /\ \A k \in DOMAIN frames : Len(items_) >= frames[k].base
        /\ pc = "rendered" => items_ = <<data>>

C4_Step ==
    pc = "render" =>
        /\ Len(frames') > Len(frames) => frames'[Len(frames')].base = Len(items_)
        /\ Len(frames') < Len(frames) => items_' = Suffix(items_, Top.base)

\* C4: the scope stack after a section's subtree is rendered is the stack of
\* before the section (base, the depth when its frame was entered); the depth
\* is never below that of the section, nor below the root scope, and at the
\* end of render the stack holds exactly the root scope.
C4_ScopeBalance == [](C4_Depth) /\ [][C4_Step]_vars

C4_Witness ==
    /\ pc = "rendered" /\ input = T_Nested
    /\ RootHas(X) /\ isList(RootVal(X)) /\ Len(RootVal(X).list[1]) >= 2
    /\ items_ = <<data>>

XFalsy ==
    \/ ~RootHas(X)
    \/ isFalse(RootVal(X))
    \/ isList(RootVal(X)) /\ Len(RootVal(X).list[1]) = 0

\* C5: {{^x}}A{{/x}} renders A exactly when x is not found, False or an empty
\* List, which is exactly when {{#x}}A{{/x}} renders nothing; otherwise the
\* inverted section renders nothing and the section renders A at least once.
C5_InvertedComplement ==
    pc = "rendered" =>
        /\ input = T_Inverted => stream = IF XFalsy THEN <<"A">> ELSE <<>>
        /\ input = T_Section =>
              IF XFalsy THEN stream = <<>>
              ELSE stream # <<>> /\ \A k \in DOMAIN stream : stream[k] = "A"

C5_Witness ==
    /\ pc = "rendered" /\ input = T_Inverted
    /\ RootHas(X) /\ RootVal(X) = DataOfType("List")
    /\ stream = <<"A">>

HasN(v) == isObject(v) /\ v.obj # Null /\ N \in DOMAIN v.obj[1]

\* what {{n}} stands for under the scopes, innermost first: the entry of the
\* first scope that is an Object containing n
FirstN(scopes) ==
    LET at == {k \in DOMAIN scopes : HasN(scopes[k])}
    IN  IF at = {} THEN <<>> ELSE Shown(scopes[MinOf(at)].obj[1][N])

RECURSIVE PerElement(_, _, _)
\* one {{n}} per element of l from the k-th on, in list order, each under
\* the element as innermost scope
PerElement(l, k, outer) ==
    IF k > Len(l) THEN <<>>
    ELSE FirstN(<<l[k]>> \o outer) \o PerElement(l, k + 1, outer)

RECURSIVE PerPair(_, _, _)
\* the same for the section nested in itself: one inner iteration per element
PerPair(l, k, outer) ==
    IF k > Len(l) THEN <<>>
    ELSE PerElement(l, 1, <<l[k]>> \o outer) \o PerPair(l, k + 1, outer)

\* C6: a section over a non-empty List runs one pass of its children per
\* element, in list order, with the element of the pass as the scope pushed
\* by the section (the innermost one while the pass runs its own children);
\* a name inside resolves to that element's entry when it has one and
\* otherwise to the first enclosing scope that has one.
C6_ListIteration ==
    /\ pc = "render" =>
          \A j \in DOMAIN frames :
              frames[j].mode = "list" =>
                  /\ frames[j].k \in 1..Len(frames[j].val.list[1])
                  /\ items_[Len(items_) - frames[j].base]
                        = frames[j].val.list[1][frames[j].k]
                  /\ j = Len(frames) => Len(items_) = frames[j].base + 1
    /\ (pc = "rendered" /\ RootHas(X) /\ isNonEmptyList(RootVal(X))) =>
          /\ input = T_SectionVar =>
                stream = PerElement(RootVal(X).list[1], 1, <<data>>)
          /\ input = T_Nested =>
                stream = PerPair(RootVal(X).list[1], 1, <<data>>)

C6_Witness ==
    /\ pc = "rendered" /\ input = T_SectionVar
    /\ RootHas(X) /\ isList(RootVal(X)) /\ RootHas(N)
    /\ RootVal(X).list[1] = <<Obj1(N, DataString(<<"1">>)), DataOfType("True")>>
    /\ stream = <<"1", "0">>

\* the running pass is that of a section rendered for a value that is
\* neither a non-empty List nor an Object: True or a String for a section,
\* anything an inverted section renders for
NoPushCase(f) ==
    \/ f.comp.tag.type = "SectionBegin" /\ (isTrue(f.val) \/ isString(f.val))
    \/ f.comp.tag.type = "SectionBeginInverted"

\* C10 as stated: in these cases no scope is pushed, the stack during the
\* pass is the stack of before the section.
C10_AsStated ==
    (pc = "render" /\ NoPushCase(Top)) => items_ = Suffix(items_, Top.base)

\* C10 amended: in these cases the children are visited in one pass and every
\* name resolves as under the stack of before the section; no scope is pushed,
\* except that an inverted section whose name is not found pushes the empty
\* Object that var was constructed as.
C10_EnclosingScopesResolve ==
    /\ (pc = "render" /\ NoPushCase(Top)) =>
          LET before == Suffix(items_, Top.base)
              found  == CtxGet(before, Top.comp.tag.name, DataDefault).ok
          IN  /\ Top.k = 0
              /\ items_ = IF found THEN before ELSE <<DataDefault>> \o before
              /\ found => Top.comp.tag.type = "SectionBegin" \/ ~isObject(Top.val)
              /\ FirstN(items_) = FirstN(before)
              /\ \A n \in {X, N, <<"y">>} :
                    CtxGet(items_, n, DataDefault) = CtxGet(before, n, DataDefault)
    /\ pc = "rendered" =>
          /\ (input = T_InvertedVar /\ XFalsy) => stream = FirstN(<<data>>)
          /\ (input = T_SectionVar /\ RootHas(X)
                /\ (isTrue(RootVal(X)) \/ isString(RootVal(X)))) => stream = FirstN(<<data>>)

C10_Witness ==
    /\ pc = "render" /\ input = T_InvertedVar /\ ~RootHas(X) /\ RootHas(N)
    /\ Len(frames) = 2 /\ NoPushCase(Top) /\ Top.i = 2
    /\ items_ = <<DataDefault, data>>
    /\ stream = <<"0">>

\* ---- claims about the scan loop

RECURSIVE TagCount(_), TagCountAll(_)
\* the tag nodes of a tree and of a list of children: the scan adds one below
\* the root in each iteration that finds a complete tag
TagCount(comp) == (IF isTag(comp) THEN 1 ELSE 0) + TagCountAll(comp.children)

TagCountAll(children) ==
    IF children = <<>> THEN 0
    ELSE TagCount(Head(children)) + TagCountAll(Tail(children))

C11_Bounded ==
    /\ inputPosition \in 0..Len(input)
    /\ pc = "scan" => TagCountAll(rootComponent_.children) <= inputPosition
    /\ ~(currentDelimiterBegin = <<>> /\ currentDelimiterEnd = <<>>)

C11_Step ==
    (pc = "scan" /\ inputPosition # Len(input)) =>
        \/ pc' # "scan"
        \/ /\ inputPosition' > inputPosition
           /\ TagCountAll(rootComponent_'.children)
                 = TagCountAll(rootComponent_.children) + 1

\* C11: the scan terminates.  Each iteration of the loop ends the scan
\* (final text node or error) or strictly increases inputPosition and adds one
\* tag node; inputPosition never exceeds the input's length, so neither does
\* the number of iterations done.  An accepted directive never installs two
\* empty delimiters, and with one empty delimiter (= ab=, =ab =) the position
\* still moves past the other.
C11_ScanTerminates == [](C11_Bounded) /\ [][C11_Step]_vars

C11_Witness ==
    /\ pc = "scan" /\ inputPosition = Len(input)
    /\ currentDelimiterBegin = <<>> /\ currentDelimiterEnd = <<"a", "b">>
    /\ TagCountAll(rootComponent_.children) = 2
    /\ isValid

====
